---- MODULE Spec2Model ----
(***************************************************************************)
(* permanentdetour: a web service that answers every request to a legacy   *)
(* III/Sierra catalogue with a permanent redirect to a Primo URL.          *)
(*                                                                         *)
(* Strings that the code takes apart (lines of a mapping file, request     *)
(* paths, query values) are sequences of one-character strings.  Unsigned  *)
(* integers are sequences of decimal digits without leading zeros (zero is *)
(* <<0>>), so that the 32 and 64 bit limits of strconv.ParseUint are the   *)
(* real ones.                                                              *)
(***************************************************************************)
EXTENDS Integers, Sequences, FiniteSets, TLC

(***************************************************************************)
(* Bounds of the model.                                                    *)
(***************************************************************************)
\* number of mapping files named on the command line
MaxFiles == 2
\* number of lines read from one mapping file
MaxLines == 2

(***************************************************************************)
(* Unsigned integers.                                                      *)
(***************************************************************************)
DigitChars == <<"0", "1", "2", "3", "4", "5", "6", "7", "8", "9">>

IsDigit(c) == \E d \in 1..10 : DigitChars[d] = c

DigitVal(c) == (CHOOSE d \in 1..10 : DigitChars[d] = c) - 1

Zero == <<0>>

\* 1<<32 - 1
MaxUint32 == <<4, 2, 9, 4, 9, 6, 7, 2, 9, 5>>

\* 1<<64 - 1
MaxUint64 == <<1, 8, 4, 4, 6, 7, 4, 4, 0, 7, 3, 7, 0, 9, 5, 5, 1, 6, 1, 5>>

\* the bit size is ignored: every number is held to the 64 bit limit
MaxValIgnoresBitSize(bitSize) == MaxUint64

\* 1<<bitSize - 1
MaxVal(bitSize) == IF bitSize = 32 THEN MaxUint32 ELSE MaxUint64

\* n*10 + d
NumAppend(n, d) == IF n = Zero THEN <<d>> ELSE Append(n, d)

RECURSIVE DigitsLE(_, _, _)
DigitsLE(a, b, i) ==
    IF i > Len(a) THEN TRUE
    ELSE IF a[i] # b[i] THEN a[i] < b[i]
    ELSE DigitsLE(a, b, i + 1)

\* a <= b
NumLE(a, b) ==
    IF Len(a) # Len(b) THEN Len(a) < Len(b) ELSE DigitsLE(a, b, 1)

RECURSIVE ParseLoop(_, _, _, _)
ParseLoop(s, i, n, bitSize) ==
    IF i > Len(s) THEN [err |-> "nil", val |-> n]
    ELSE IF ~IsDigit(s[i]) THEN [err |-> "ErrSyntax", val |-> Zero]
    ELSE LET n1 == NumAppend(n, DigitVal(s[i]))
         IN  IF ~NumLE(n1, MaxVal(bitSize))
             THEN [err |-> "ErrRange", val |-> MaxVal(bitSize)]
             ELSE ParseLoop(s, i + 1, n1, bitSize)

\* strconv.ParseUint(s, 10, bitSize)
ParseUint(s, bitSize) ==
    IF s = <<>> THEN [err |-> "ErrSyntax", val |-> Zero]
    ELSE ParseLoop(s, 1, Zero, bitSize)

\* fmt.Sprintf("%v", n) of an unsigned integer
FormatUint(n) == [i \in 1..Len(n) |-> DigitChars[n[i] + 1]]

(***************************************************************************)
(* Strings.                                                                *)
(***************************************************************************)
\* strings.HasPrefix(s, prefix)
HasPrefix(s, prefix) ==
    /\ Len(s) >= Len(prefix)
    /\ SubSeq(s, 1, Len(prefix)) = prefix

\* strings.Index(s, c) for a one-character c: 0-based, -1 when absent
Index(s, c) ==
    IF \E i \in 1..Len(s) : s[i] = c
    THEN (CHOOSE i \in 1..Len(s) : s[i] = c /\ \A j \in 1..(i - 1) : s[j] # c) - 1
    ELSE -1

RECURSIVE SplitFrom(_, _, _, _)
SplitFrom(s, sep, i, cur) ==
    IF i > Len(s) THEN <<cur>>
    ELSE IF s[i] = sep THEN <<cur>> \o SplitFrom(s, sep, i + 1, <<>>)
    ELSE SplitFrom(s, sep, i + 1, Append(cur, s[i]))

\* strings.Split(s, sep) for a one-character sep
Split(s, sep) == SplitFrom(s, sep, 1, <<>>)

(***************************************************************************)
(* processLine: one line of a mapping file to (bibID, exlID, error).       *)
(* err is "nil", the text of the error, or "panic" when the slice          *)
(* expression runs out of range and the Go runtime panics.                 *)
(***************************************************************************)
LineResult(bibID, exlID, err) == [bibID |-> bibID, exlID |-> exlID, err |-> err]

processLine(line) ==
    LET splitLine == Split(line, ",")
    IN
    IF Len(splitLine) < 2 THEN LineResult(Zero, Zero, "fields")
    ELSE
    LET dashIndex == Index(splitLine[2], "-")
    IN
    IF dashIndex = 0 \/ dashIndex = 1 THEN LineResult(Zero, Zero, "dash")
    ELSE IF dashIndex = -1 /\ Len(splitLine[2]) < 1 THEN LineResult(Zero, Zero, "panic")
    ELSE
    LET bibIDString == IF dashIndex = -1
                       THEN SubSeq(splitLine[2], 2, Len(splitLine[2]))
                       ELSE SubSeq(splitLine[2], 2, dashIndex)
        bib == ParseUint(bibIDString, 32)
    IN
    IF bib.err # "nil" THEN LineResult(Zero, Zero, bib.err)
    ELSE
    LET exl == ParseUint(splitLine[1], 64)
    IN
    IF exl.err # "nil" THEN LineResult(bib.val, exl.val, exl.err)
    ELSE LineResult(bib.val, exl.val, "nil")

(***************************************************************************)
(* URLs and their queries.  A raw query is the sequence of its key=value   *)
(* pairs, the values still escaped; url.Values maps a key to the sequence  *)
(* of its unescaped values.                                                *)
(***************************************************************************)
\* the bytes url.QueryEscape writes as %XX, with their two hex digits
HexOf ==
    [c \in {",", ":", "+", "%", "/", "=", "&", "(", ")", "?"} |->
        CASE c = "," -> <<"2", "C">>
          [] c = ":" -> <<"3", "A">>
          [] c = "+" -> <<"2", "B">>
          [] c = "%" -> <<"2", "5">>
          [] c = "/" -> <<"2", "F">>
          [] c = "=" -> <<"3", "D">>
          [] c = "&" -> <<"2", "6">>
          [] c = "(" -> <<"2", "8">>
          [] c = ")" -> <<"2", "9">>
          [] c = "?" -> <<"3", "F">>]

IsHex(c) == IsDigit(c) \/ c \in {"A", "B", "C", "D", "E", "F", "a", "b", "c", "d", "e", "f"}

UpperHex(c) ==
    CASE c = "a" -> "A" [] c = "b" -> "B" [] c = "c" -> "C"
      [] c = "d" -> "D" [] c = "e" -> "E" [] c = "f" -> "F" [] OTHER -> c

\* the byte written %h1h2
ByteOf(h1, h2) ==
    IF h1 = "2" /\ h2 = "0" THEN " "
    ELSE IF \E c \in DOMAIN HexOf : HexOf[c] = <<UpperHex(h1), UpperHex(h2)>>
    THEN CHOOSE c \in DOMAIN HexOf : HexOf[c] = <<UpperHex(h1), UpperHex(h2)>>
    ELSE "?"

RECURSIVE QueryEscape(_)
\* url.QueryEscape(s)
QueryEscape(s) ==
    IF s = <<>> THEN <<>>
    ELSE LET c == Head(s)
             e == IF c = " " THEN <<"+">>
                  ELSE IF c \in DOMAIN HexOf THEN <<"%">> \o HexOf[c]
                  ELSE <<c>>
         IN  e \o QueryEscape(Tail(s))

RECURSIVE EscapeOK(_, _)
\* url.QueryUnescape(s) returns no error: every % starts two hex digits
EscapeOK(s, i) ==
    IF i > Len(s) THEN TRUE
    ELSE IF s[i] = "%"
    THEN /\ i + 2 <= Len(s)
         /\ IsHex(s[i + 1])
         /\ IsHex(s[i + 2])
         /\ EscapeOK(s, i + 3)
    ELSE EscapeOK(s, i + 1)

RECURSIVE Unescape(_, _)
Unescape(s, i) ==
    IF i > Len(s) THEN <<>>
    ELSE IF s[i] = "%" THEN <<ByteOf(s[i + 1], s[i + 2])>> \o Unescape(s, i + 3)
    ELSE IF s[i] = "+" THEN <<" ">> \o Unescape(s, i + 1)
    ELSE <<s[i]>> \o Unescape(s, i + 1)

\* url.QueryUnescape(s), for an s with EscapeOK(s, 1)
QueryUnescape(s) == Unescape(s, 1)

RECURSIVE ParseQuery(_)
\* url.ParseQuery(raw) as URL.Query() uses it: a pair that does not
\* unescape is dropped, the others are appended to their key's values
ParseQuery(raw) ==
    IF raw = <<>> THEN <<>>
    ELSE LET rest == ParseQuery(SubSeq(raw, 1, Len(raw) - 1))
             key == raw[Len(raw)][1]
             value == raw[Len(raw)][2]
         IN  IF ~EscapeOK(value, 1) THEN rest
             ELSE IF key \in DOMAIN rest
             THEN [rest EXCEPT ![key] = Append(@, QueryUnescape(value))]
             ELSE [k \in DOMAIN rest \cup {key} |->
                      IF k = key THEN <<QueryUnescape(value)>> ELSE rest[k]]

\* url.Values.Get(key)
Get(q, key) == IF key \in DOMAIN q /\ q[key] # <<>> THEN q[key][1] ELSE <<>>

\* url.Values.Set(key, value)
Set(q, key, value) ==
    [k \in DOMAIN q \cup {key} |-> IF k = key THEN <<value>> ELSE q[k]]

\* the keys of the outbound query in the byte order url.Values.Encode sorts by
KeyOrder ==
    <<"browseQuery", "browseScope", "docid", "query", "search_scope", "sortby", "tab", "vid">>

RECURSIVE EncodeFrom(_, _)
EncodeFrom(q, i) ==
    IF i > Len(KeyOrder) THEN <<>>
    ELSE LET k == KeyOrder[i]
         IN  (IF k \in DOMAIN q
              THEN [j \in 1..Len(q[k]) |-> <<k, QueryEscape(q[k][j])>>]
              ELSE <<>>) \o EncodeFrom(q, i + 1)

\* url.Values.Encode()
Encode(q) == EncodeFrom(q, 1)

\* q.Set is lost: the query is not written back to the URL
setParamInURLNotStored(redirectTo, param, value) == redirectTo

setParamInURL(redirectTo, param, value) ==
    [redirectTo EXCEPT !.RawQuery = Encode(Set(ParseQuery(@), param, value))]

(***************************************************************************)
(* The constants of main.go.                                               *)
(***************************************************************************)
\* "primo.exlibrisgroup.com"
PrimoDomain == <<"p", "r", "i", "m", "o", ".", "e", "x", "l", "i", "b", "r", "i", "s", "g", "r", "o", "u", "p", ".", "c", "o", "m">>

\* "/record=b"
RecordPrefix == <<"/", "r", "e", "c", "o", "r", "d", "=", "b">>

\* "/patroninfo"
PatronInfoPrefix == <<"/", "p", "a", "t", "r", "o", "n", "i", "n", "f", "o">>

\* "/search/a"
SearchAuthorIndexPrefix == <<"/", "s", "e", "a", "r", "c", "h", "/", "a">>

\* "/search/c"
SearchCallNumberIndexPrefix == <<"/", "s", "e", "a", "r", "c", "h", "/", "c">>

\* "/search/c", the value the source gives the title index too
SearchTitleIndexPrefix == <<"/", "s", "e", "a", "r", "c", "h", "/", "c">>

\* "/search/"
SearchPrefix == <<"/", "s", "e", "a", "r", "c", "h", "/">>

\* "/search~S9"
SearchResultRecordPrefix == <<"/", "s", "e", "a", "r", "c", "h", "~", "S", "9">>

\* http.StatusMovedPermanently
StatusMovedPermanently == 301

(***************************************************************************)
(* The builders.  Each takes the URL built so far and the request r, a     *)
(* record of r.URL.Path and r.URL.RawQuery, and gives the URL it leaves.   *)
(***************************************************************************)
\* "alma"
Alma == <<"a", "l", "m", "a">>

\* an ID the table does not hold is sent to the record page all the same
buildRecordRedirectUnchecked(redirectTo, r, idMap) ==
    LET bibID64 == ParseUint(SubSeq(r.Path, Len(RecordPrefix) + 1, Len(r.Path)), 32)
    IN  IF bibID64.err = "nil"
        THEN setParamInURL([redirectTo EXCEPT !.Path = "/discovery/fulldisplay"], "docid",
                 Alma \o FormatUint(IF bibID64.val \in DOMAIN idMap
                                    THEN idMap[bibID64.val] ELSE Zero))
        ELSE redirectTo

buildRecordRedirect(redirectTo, r, idMap) ==
    LET bibID64 == ParseUint(SubSeq(r.Path, Len(RecordPrefix) + 1, Len(r.Path)), 32)
    IN  IF bibID64.err = "nil"
        THEN LET bibID == bibID64.val
             IN  IF bibID \in DOMAIN idMap
                 THEN setParamInURL([redirectTo EXCEPT !.Path = "/discovery/fulldisplay"],
                          "docid", Alma \o FormatUint(idMap[bibID]))
                 ELSE redirectTo
        ELSE redirectTo

\* the three index builders differ in the browseScope only
buildIndexRedirect(redirectTo, r, browseScope) ==
    LET scoped == setParamInURL([redirectTo EXCEPT !.Path = "/discovery/browse"],
                      "browseScope", browseScope)
        searchParam == Get(ParseQuery(r.RawQuery), "SEARCH")
    IN  IF searchParam # <<>>
        THEN setParamInURL(scoped, "browseQuery", searchParam)
        ELSE scoped

buildAuthorSearchRedirect(redirectTo, r) ==
    buildIndexRedirect(redirectTo, r, <<"a", "u", "t", "h", "o", "r">>)

buildCallNumberSearchRedirect(redirectTo, r) ==
    buildIndexRedirect(redirectTo, r, <<"c", "a", "l", "l", "n", "u", "m", "b", "e", "r", ".", "0">>)

buildTitleSearchRedirect(redirectTo, r) ==
    buildIndexRedirect(redirectTo, r, <<"t", "i", "t", "l", "e">>)

\* ",contains,"
Contains == <<",", "c", "o", "n", "t", "a", "i", "n", "s", ",">>

\* every searchtype is searched as a title
searchFieldAlwaysTitle(searchtype) == <<"t", "i", "t", "l", "e">>

\* the field of the query parameter, by the searchtype code
searchField(searchtype) ==
    CASE searchtype = <<"t">> -> <<"t", "i", "t", "l", "e">>
      [] searchtype = <<"a">> -> <<"c", "r", "e", "a", "t", "o", "r">>
      [] searchtype = <<"d">> -> <<"s", "u", "b">>
      [] OTHER -> <<"a", "n", "y">>

\* the searchdropdown switch
buildSortby(redirectTo, searchdropdown) ==
    CASE searchdropdown = <<"t">> -> setParamInURL(redirectTo, "sortby", <<"t", "i", "t", "l", "e">>)
      [] searchdropdown = <<"a">> -> setParamInURL(redirectTo, "sortby", <<"a", "u", "t", "h", "o", "r">>)
      [] searchdropdown = <<"c">> -> setParamInURL(redirectTo, "sortby", <<"d", "a", "t", "e", "_", "a">>)
      [] searchdropdown = <<"r">> -> setParamInURL(redirectTo, "sortby", <<"d", "a", "t", "e", "_", "d">>)
      [] OTHER -> redirectTo

buildSearchRedirect(redirectTo, r) ==
    LET q == ParseQuery(r.RawQuery)
        searcharg == Get(q, "searcharg")
        searchtype == Get(q, "searchtype")
    IN
    IF searcharg = <<>> THEN redirectTo
    ELSE
    LET u1 == [redirectTo EXCEPT !.Path = "/discovery/search"]
        u2 == IF searchtype = <<"c">>
              THEN setParamInURL(
                       setParamInURL([u1 EXCEPT !.Path = "/discovery/browse"],
                           "browseScope", <<"c", "a", "l", "l", "n", "u", "m", "b", "e", "r", ".", "0">>),
                       "browseQuery", searcharg)
              ELSE setParamInURL(u1, "query",
                       searchField(searchtype) \o Contains \o searcharg)
        u3 == buildSortby(u2, Get(q, "searchdropdown"))
    IN  setParamInURL(setParamInURL(u3, "tab", <<"E", "v", "e", "r", "y", "t", "h", "i", "n", "g">>),
            "search_scope", <<"M", "y", "I", "n", "s", "t", "_", "a", "n", "d", "_", "C", "I">>)

(***************************************************************************)
(* Detourer.ServeHTTP.                                                     *)
(***************************************************************************)
\* the search rule is tried before the index rules
DispatchSearchFirst(path) ==
    IF HasPrefix(path, RecordPrefix) THEN "record"
    ELSE IF HasPrefix(path, PatronInfoPrefix) THEN "patroninfo"
    ELSE IF HasPrefix(path, SearchPrefix) THEN "search"
    ELSE IF HasPrefix(path, SearchAuthorIndexPrefix) THEN "author"
    ELSE IF HasPrefix(path, SearchCallNumberIndexPrefix) THEN "callnumber"
    ELSE IF HasPrefix(path, SearchTitleIndexPrefix) THEN "title"
    ELSE IF HasPrefix(path, SearchResultRecordPrefix) THEN "searchresult"
    ELSE "default"

\* the case of the switch that runs
Dispatch(path) ==
    IF HasPrefix(path, RecordPrefix) THEN "record"
    ELSE IF HasPrefix(path, PatronInfoPrefix) THEN "patroninfo"
    ELSE IF HasPrefix(path, SearchAuthorIndexPrefix) THEN "author"
    ELSE IF HasPrefix(path, SearchCallNumberIndexPrefix) THEN "callnumber"
    ELSE IF HasPrefix(path, SearchTitleIndexPrefix) THEN "title"
    ELSE IF HasPrefix(path, SearchPrefix) THEN "search"
    ELSE IF HasPrefix(path, SearchResultRecordPrefix) THEN "searchresult"
    ELSE "default"

\* the URL the case leaves in redirectTo
Build(rule, redirectTo, r, idMap) ==
    CASE rule = "record" -> buildRecordRedirect(redirectTo, r, idMap)
      [] rule = "patroninfo" -> [redirectTo EXCEPT !.Path = "/discovery/login"]
      [] rule = "author" -> buildAuthorSearchRedirect(redirectTo, r)
      [] rule = "callnumber" -> buildCallNumberSearchRedirect(redirectTo, r)
      [] rule = "title" -> buildTitleSearchRedirect(redirectTo, r)
      [] rule = "search" -> buildSearchRedirect(redirectTo, r)
      [] OTHER -> redirectTo

\* an ID that resolves to nothing is answered 404 Not Found
RespondNotFound(r, idMap, primo, vid) ==
    LET rule == Dispatch(r.Path)
        redirectTo == Build(rule,
            [Scheme |-> "https", Host |-> primo, Path |-> "/discovery/search", RawQuery |-> <<>>],
            r, idMap)
    IN  IF rule = "record" /\ redirectTo.Path # "/discovery/fulldisplay"
        THEN <<[rule |-> rule, status |-> 404, Location |-> redirectTo]>>
        ELSE <<[rule |-> rule, status |-> StatusMovedPermanently,
                Location |-> setParamInURL(redirectTo, "vid", vid)]>>

\* what ServeHTTP writes to w: the responses, each with the case that ran
Respond(r, idMap, primo, vid) ==
    LET rule == Dispatch(r.Path)
        redirectTo == Build(rule,
            [Scheme |-> "https", Host |-> primo, Path |-> "/discovery/search", RawQuery |-> <<>>],
            r, idMap)
    IN  <<[rule |-> rule, status |-> StatusMovedPermanently,
           Location |-> setParamInURL(redirectTo, "vid", vid)]>>

(***************************************************************************)
(* The inputs: the flags, the lines a mapping file may hold, the requests. *)
(***************************************************************************)
\* the values of the -primo flag: unset, "ocul-crl"
Subdomains == {<<>>, <<"o", "c", "u", "l", "-", "c", "r", "l">>}

\* the values of the -vid flag: unset, "01OCUL_CRL:CRL_DEFAULT", "CRL 1"
Vids == {<<>>, <<"0", "1", "O", "C", "U", "L", "_", "C", "R", "L", ":", "C", "R", "L", "_", "D", "E", "F", "A", "U", "L", "T">>, <<"C", "R", "L", " ", "1">>}

\* "1,b1-"
\* "2,b1"
\* "991018705459705153,b2405380-01suffix,"
\* "18446744073709551615,b4294967295-01suffix,"
\* "7,b007"
\* "0,invalid"
\* "1,"
\* "1"
FileLines ==
    { <<"1", ",", "b", "1", "-">>,
      <<"2", ",", "b", "1">>,
      <<"9", "9", "1", "0", "1", "8", "7", "0", "5", "4", "5", "9", "7", "0", "5", "1", "5", "3", ",", "b", "2", "4", "0", "5", "3", "8", "0", "-", "0", "1", "s", "u", "f", "f", "i", "x", ",">>,
      <<"1", "8", "4", "4", "6", "7", "4", "4", "0", "7", "3", "7", "0", "9", "5", "5", "1", "6", "1", "5", ",", "b", "4", "2", "9", "4", "9", "6", "7", "2", "9", "5", "-", "0", "1", "s", "u", "f", "f", "i", "x", ",">>,
      <<"7", ",", "b", "0", "0", "7">>,
      <<"0", ",", "i", "n", "v", "a", "l", "i", "d">>,
      <<"1", ",">>,
      <<"1">> }

\* what follows "/record=b" in a request for a record
RecordSuffixes ==
    { <<>>,
      <<"1">>,
      <<"0", "0", "7">>,
      <<"3">>,
      <<"2", "4", "0", "5", "3", "8", "0">>,
      <<"4", "2", "9", "4", "9", "6", "7", "2", "9", "5">>,
      <<"4", "2", "9", "4", "9", "6", "7", "2", "9", "6">>,
      <<"1", "x">>,
      <<"-", "1">>,
      <<"b", "1">> }

OtherPaths ==
    { <<"/">>,
      <<"/", "p", "a", "t", "r", "o", "n", "i", "n", "f", "o">>,
      <<"/", "p", "a", "t", "r", "o", "n", "i", "n", "f", "o", "/", "x">>,
      <<"/", "s", "e", "a", "r", "c", "h">>,
      <<"/", "s", "e", "a", "r", "c", "h", "/">>,
      <<"/", "s", "e", "a", "r", "c", "h", "/", "X">>,
      <<"/", "s", "e", "a", "r", "c", "h", "/", "t">>,
      <<"/", "s", "e", "a", "r", "c", "h", "/", "a">>,
      <<"/", "s", "e", "a", "r", "c", "h", "/", "a", "b", "c">>,
      <<"/", "s", "e", "a", "r", "c", "h", "/", "c">>,
      <<"/", "s", "e", "a", "r", "c", "h", "/", "c", "/", "x">>,
      <<"/", "s", "e", "a", "r", "c", "h", "~", "S", "9">>,
      <<"/", "s", "e", "a", "r", "c", "h", "~", "S", "9", "/", "x">>,
      <<"/", "r", "e", "c", "o", "r", "d", "=">>,
      <<"/", "R", "e", "c", "o", "r", "d", "=", "b", "1">> }

Paths == {RecordPrefix \o s : s \in RecordSuffixes} \cup OtherPaths

\* the queries of requests to an index
BrowseQueries ==
    { <<>>,
      <<<<"SEARCH", <<"t", "w", "a", "i", "n">>>>>>,
      <<<<"SEARCH", <<"a", "+", "b">>>>>>,
      <<<<"SEARCH", <<"a", "%", "2", "C", "b">>>>>>,
      <<<<"SEARCH", <<"a", "%", "2", "c", "b", "%", "2", "0", "c">>>>>>,
      <<<<"SEARCH", <<"%", "z", "z">>>>>>,
      <<<<"SEARCH", <<>>>>>>,
      <<<<"SEARCH", <<"x">>>>, <<"SEARCH", <<"y">>>>>>,
      <<<<"SEARCH", <<"t", "w", "a", "i", "n">>>>, <<"sortdropdown", <<"-">>>>, <<"searchscope", <<"9">>>>>>,
      <<<<"vid", <<"x">>>>>>,
      <<<<"search", <<"t", "w", "a", "i", "n">>>>>> }

\* the queries of requests for a search
SearchQueries ==
    { <<<<"searcharg", <<"s", "p", "i", "d", "e", "r", "s">>>>>>,
      <<<<"searchtype", <<"t">>>>, <<"searcharg", <<"s", "p", "i", "d", "e", "r", "s">>>>>>,
      <<<<"searchtype", <<"a">>>>, <<"searcharg", <<"s", "p", "i", "d", "e", "r", "s">>>>>>,
      <<<<"searchtype", <<"d">>>>, <<"searcharg", <<"s", "p", "i", "d", "e", "r", "s">>>>>>,
      <<<<"searchtype", <<"c">>>>, <<"searcharg", <<"s", "p", "i", "d", "e", "r", "s">>>>>>,
      <<<<"searchtype", <<"x">>>>, <<"searcharg", <<"s", "p", "i", "d", "e", "r", "s">>>>>>,
      <<<<"searchtype", <<>>>>, <<"searcharg", <<"s", "p", "i", "d", "e", "r", "s">>>>>>,
      <<<<"searchtype", <<"t">>>>, <<"searcharg", <<"s", "p", "i", "d", "e", "r", "s">>>>, <<"searchdropdown", <<"t">>>>>>,
      <<<<"searchtype", <<"t">>>>, <<"searcharg", <<"s", "p", "i", "d", "e", "r", "s">>>>, <<"searchdropdown", <<"a">>>>>>,
      <<<<"searchtype", <<"t">>>>, <<"searcharg", <<"s", "p", "i", "d", "e", "r", "s">>>>, <<"searchdropdown", <<"c">>>>>>,
      <<<<"searchtype", <<"t">>>>, <<"searcharg", <<"s", "p", "i", "d", "e", "r", "s">>>>, <<"searchdropdown", <<"r">>>>>>,
      <<<<"searchtype", <<"t">>>>, <<"searcharg", <<"s", "p", "i", "d", "e", "r", "s">>>>, <<"searchdropdown", <<"x">>>>>>,
      <<<<"searcharg", <<"a", "%", "2", "0", "b", ",", "c">>>>>>,
      <<<<"searchtype", <<"t">>>>, <<"searcharg", <<"a", "%", "2", "0", "b", ",", "c">>>>>>,
      <<<<"searchtype", <<"a">>>>, <<"searcharg", <<"a", "%", "2", "0", "b", ",", "c">>>>>>,
      <<<<"searchtype", <<"d">>>>, <<"searcharg", <<"a", "%", "2", "0", "b", ",", "c">>>>>>,
      <<<<"searchtype", <<"c">>>>, <<"searcharg", <<"a", "%", "2", "0", "b", ",", "c">>>>>>,
      <<<<"searchtype", <<"x">>>>, <<"searcharg", <<"a", "%", "2", "0", "b", ",", "c">>>>>>,
      <<<<"searchtype", <<>>>>, <<"searcharg", <<"a", "%", "2", "0", "b", ",", "c">>>>>>,
      <<<<"searchtype", <<"t">>>>, <<"searcharg", <<"a", "%", "2", "0", "b", ",", "c">>>>, <<"searchdropdown", <<"t">>>>>>,
      <<<<"searchtype", <<"t">>>>, <<"searcharg", <<"a", "%", "2", "0", "b", ",", "c">>>>, <<"searchdropdown", <<"a">>>>>>,
      <<<<"searchtype", <<"t">>>>, <<"searcharg", <<"a", "%", "2", "0", "b", ",", "c">>>>, <<"searchdropdown", <<"c">>>>>>,
      <<<<"searchtype", <<"t">>>>, <<"searcharg", <<"a", "%", "2", "0", "b", ",", "c">>>>, <<"searchdropdown", <<"r">>>>>>,
      <<<<"searchtype", <<"t">>>>, <<"searcharg", <<"a", "%", "2", "0", "b", ",", "c">>>>, <<"searchdropdown", <<"x">>>>>>,
      <<<<"searchtype", <<"c">>>>, <<"searcharg", <<"Q", "A", "7", "6">>>>, <<"searchdropdown", <<"r">>>>>>,
      <<<<"searchtype", <<"t">>>>, <<"searcharg", <<>>>>>>,
      <<<<"searchtype", <<"t">>>>, <<"searcharg", <<"%">>>>>>,
      <<<<"searchtype", <<"t">>>>, <<"SORT", <<"D">>>>, <<"searcharg", <<"s", "p", "i", "d", "e", "r", "s">>>>, <<"searchscope", <<"9">>>>, <<"submit", <<"S", "u", "b", "m", "i", "t">>>>>> }

Requests == [Path : Paths, RawQuery : BrowseQueries \cup SearchQueries]

(***************************************************************************)
(* The state of the process.                                               *)
(***************************************************************************)
VARIABLES
    pc,         \* where main is: "flags", "load", "serving", "exited", "panicked"
    subdomain,  \* the -primo flag
    vid,        \* the -vid flag, d.vid
    primo,      \* d.primo
    numFiles,   \* len(flag.Args())
    fileIdx,    \* the mapping file the loop of main is at, from 1
    fileOpen,   \* processFile has opened it and is scanning
    lnum,       \* lnum of processFile
    idMap,      \* d.idMap
    line,       \* scanner.Text() of the last line scanned
    parsed,     \* what processLine returned for it
    fatalErr,   \* what log.Fatal was given
    req,        \* the request ServeHTTP is called with
    resp,       \* what it has written to the ResponseWriter
    search,     \* the expression decodeAdvancedSearch is called with
    parts,      \* the segments and connective words the expression was written from
    terms,      \* what decodeAdvancedSearch returned
    handlers,   \* the goroutines of the server, each serving one request at a time
    sigpc,      \* where the goroutine that waits for SIGINT/SIGTERM is
    listener,   \* the listener of the server: "none", "open", "closed"
    shutdown    \* the shutdown channel is closed

\* the state of the decoder and of the running server
ext == <<search, parts, terms, handlers, sigpc, listener, shutdown>>

vars == <<pc, subdomain, vid, primo, numFiles, fileIdx, fileOpen, lnum, idMap,
          line, parsed, fatalErr, req, resp, ext>>

\* number of requests the server handles at the same time
MaxHandlers == 2

\* the URL of the default case, before the host is known
NoURL == [Scheme |-> "https", Host |-> <<>>, Path |-> "/discovery/search", RawQuery |-> <<>>]

\* a goroutine of the server with no request
IdleHandler ==
    [stage |-> "idle", r |-> [Path |-> <<>>, RawQuery |-> <<>>], redirectTo |-> NoURL,
     w |-> <<>>, atShutdown |-> FALSE]

\* an expression that was not written from parts
NoParts == [wrap |-> 0, segs |-> <<>>, words |-> <<>>]

\* nothing decoded, no server running
ExtInit ==
    /\ search = <<>>
    /\ parts = NoParts
    /\ terms = <<>>
    /\ handlers = [h \in 1..MaxHandlers |-> IdleHandler]
    /\ sigpc = "none"
    /\ listener = "none"
    /\ shutdown = FALSE

Err(msg, n, text, bibID, file) ==
    [msg |-> msg, lnum |-> n, text |-> text, bibID |-> bibID, file |-> file]

NoErr == Err("nil", 0, <<>>, Zero, 0)

NoResult == LineResult(Zero, Zero, "none")

NoRequest == [Path |-> <<>>, RawQuery |-> <<>>]

Init ==
    /\ pc = "flags"
    /\ subdomain \in Subdomains
    /\ vid \in Vids
    /\ primo = <<>>
    /\ numFiles \in 0..MaxFiles
    /\ fileIdx = 1
    /\ fileOpen = FALSE
    /\ lnum = 0
    /\ idMap = <<>>
    /\ line = <<>>
    /\ parsed = NoResult
    /\ fatalErr = NoErr
    /\ req = NoRequest
    /\ resp = <<>>
    /\ ExtInit

\* main, from the flags to the Detourer
ParseFlags ==
    /\ pc = "flags"
    /\ IF subdomain = <<>>
       THEN /\ pc' = "exited"
            /\ fatalErr' = Err("A primo subdomain is required.", 0, <<>>, Zero, 0)
            /\ primo' = primo
       ELSE IF vid = <<>>
       THEN /\ pc' = "exited"
            /\ fatalErr' = Err("A vid is required.", 0, <<>>, Zero, 0)
            /\ primo' = primo
       ELSE /\ pc' = "load"
            /\ fatalErr' = fatalErr
            /\ primo' = subdomain \o <<".">> \o PrimoDomain
    /\ UNCHANGED ext
    /\ UNCHANGED <<subdomain, vid, numFiles, fileIdx, fileOpen, lnum, idMap,
                   line, parsed, req, resp>>

\* processFile up to the scanner: os.Open succeeds or fails
OpenFile ==
    /\ pc = "load"
    /\ fileIdx <= numFiles
    /\ ~fileOpen
    /\ \E opened \in BOOLEAN :
         IF opened
         THEN /\ fileOpen' = TRUE
              /\ lnum' = 0
              /\ UNCHANGED <<pc, fatalErr>>
         ELSE /\ pc' = "exited"
              /\ fatalErr' = Err("Could not open for reading", 0, <<>>, Zero, fileIdx)
              /\ UNCHANGED <<fileOpen, lnum>>
    /\ UNCHANGED ext
    /\ UNCHANGED <<subdomain, vid, primo, numFiles, fileIdx, idMap, line, parsed, req, resp>>

\* a line whose Bib ID the map holds replaces the entry
scanLineOverwrite(m, n, text) ==
    LET r == processLine(text)
    IN  IF r.err = "panic" THEN [err |-> Err("panic", 0, <<>>, Zero, 0), m |-> m]
        ELSE IF r.err # "nil"
        THEN [err |-> Err("Unable to process line", n, text, Zero, 0), m |-> m]
        ELSE [err |-> NoErr,
              m |-> [k \in DOMAIN m \cup {r.bibID} |-> IF k = r.bibID THEN r.exlID ELSE m[k]]]

\* the body of the loop of processFile, for line n with this text: the error
\* it returns and the map it leaves
scanLine(m, n, text) ==
    LET r == processLine(text)
    IN  IF r.err = "panic" THEN [err |-> Err("panic", 0, <<>>, Zero, 0), m |-> m]
        ELSE IF r.err # "nil"
        THEN [err |-> Err("Unable to process line", n, text, Zero, 0), m |-> m]
        ELSE IF r.bibID \in DOMAIN m
        THEN [err |-> Err("Previously seen Bib ID was encountered", 0, <<>>, r.bibID, 0), m |-> m]
        ELSE [err |-> NoErr,
              m |-> [k \in DOMAIN m \cup {r.bibID} |-> IF k = r.bibID THEN r.exlID ELSE m[k]]]

\* scanner.Scan() gives a line: one turn of the loop of processFile, and
\* log.Fatal in main when it returns an error
ScanLine ==
    /\ pc = "load"
    /\ fileOpen
    /\ lnum < MaxLines
    /\ \E text \in FileLines :
         LET out == scanLine(idMap, lnum + 1, text)
         IN  /\ lnum' = lnum + 1
             /\ line' = text
             /\ parsed' = processLine(text)
             /\ idMap' = out.m
             /\ IF out.err.msg = "panic"
                THEN pc' = "panicked" /\ fatalErr' = fatalErr
                ELSE IF out.err # NoErr
                THEN pc' = "exited" /\ fatalErr' = out.err
                ELSE pc' = pc /\ fatalErr' = fatalErr
    /\ UNCHANGED ext
    /\ UNCHANGED <<subdomain, vid, primo, numFiles, fileIdx, fileOpen, req, resp>>

\* scanner.Scan() gives false: the end of the file or a read error
ScanEnd ==
    /\ pc = "load"
    /\ fileOpen
    /\ \E readOK \in BOOLEAN :
         IF readOK
         THEN /\ fileIdx' = fileIdx + 1
              /\ UNCHANGED <<pc, fatalErr>>
         ELSE /\ pc' = "exited"
              /\ fatalErr' = Err("Scanner error when processing", 0, <<>>, Zero, fileIdx)
              /\ fileIdx' = fileIdx
    /\ fileOpen' = FALSE
    /\ lnum' = 0
    /\ line' = <<>>
    /\ parsed' = NoResult
    /\ UNCHANGED ext
    /\ UNCHANGED <<subdomain, vid, primo, numFiles, idMap, req, resp>>

\* the server is started with files still to load
LoadCompleteEarly == fileIdx >= numFiles

\* the range loop over flag.Args() has ended
LoadComplete == fileIdx > numFiles /\ ~fileOpen

\* main, from the end of the loop to ListenAndServe
StartServer ==
    /\ pc = "load"
    /\ LoadComplete
    /\ pc' = "serving"
    /\ UNCHANGED ext
    /\ UNCHANGED <<subdomain, vid, primo, numFiles, fileIdx, fileOpen, lnum, idMap,
                   line, parsed, fatalErr, req, resp>>

\* the server calls the handler with a request
ServeHTTP ==
    /\ pc = "serving"
    /\ resp = <<>>
    /\ \E r \in Requests :
         /\ req' = r
         /\ resp' = Respond(r, idMap, primo, vid)
    /\ UNCHANGED ext
    /\ UNCHANGED <<pc, subdomain, vid, primo, numFiles, fileIdx, fileOpen, lnum, idMap,
                   line, parsed, fatalErr>>

\* the handler has returned and the server has sent what it wrote
Finish ==
    /\ pc = "serving"
    /\ resp # <<>>
    /\ req' = NoRequest
    /\ resp' = <<>>
    /\ UNCHANGED ext
    /\ UNCHANGED <<pc, subdomain, vid, primo, numFiles, fileIdx, fileOpen, lnum, idMap,
                   line, parsed, fatalErr>>

Next ==
    \/ ParseFlags
    \/ OpenFile
    \/ ScanLine
    \/ ScanEnd
    \/ StartServer
    \/ ServeHTTP
    \/ Finish

Spec == Init /\ [][Next]_vars

(***************************************************************************)
(* decodeAdvancedSearch: a search expression to its terms.  The function   *)
(* is called by TestDecodeAdvancedSearch and written down in the           *)
(* specification of the decoder; it is modelled from that description and  *)
(* held to the table of the test.                                          *)
(***************************************************************************)
SearchTerm(field, text, connective) ==
    [field |-> field, operator |-> "contains", text |-> text, connective |-> connective]

\* the lower case of the letters of the connective words
Lower(c) ==
    CASE c = "A" -> "a" [] c = "N" -> "n" [] c = "D" -> "d"
      [] c = "O" -> "o" [] c = "R" -> "r" [] c = "T" -> "t" [] OTHER -> c

\* the word stands at position i of s, in any case
WordAt(s, i, word) ==
    /\ i + Len(word) - 1 <= Len(s)
    /\ \A k \in 1..Len(word) : Lower(s[i + k - 1]) = word[k]

\* " and not "
AndNotWord == <<" ", "a", "n", "d", " ", "n", "o", "t", " ">>

\* " and "
AndWord == <<" ", "a", "n", "d", " ">>

\* " or "
OrWord == <<" ", "o", "r", " ">>

RECURSIVE CloseFrom(_, _, _)
\* where the parenthesis open at depth 1 before position j closes, 0 if nowhere
CloseFrom(s, j, depth) ==
    IF j > Len(s) THEN 0
    ELSE IF s[j] = "(" THEN CloseFrom(s, j + 1, depth + 1)
    ELSE IF s[j] = ")"
    THEN IF depth = 1 THEN j ELSE CloseFrom(s, j + 1, depth - 1)
    ELSE CloseFrom(s, j + 1, depth)

\* s is one parenthesis pair from its first to its last character
Enclosed(s) == Len(s) >= 2 /\ s[1] = "(" /\ CloseFrom(s, 2, 1) = Len(s)

\* one enclosing pair stripped, if there is one
StripPair(s) == IF Enclosed(s) THEN SubSeq(s, 2, Len(s) - 1) ELSE s

RECURSIVE StripWrap(_)
\* step 1: the enclosing pairs of the whole expression stripped
StripWrap(s) == IF Enclosed(s) THEN StripWrap(SubSeq(s, 2, Len(s) - 1)) ELSE s

\* nothing but parentheses, or nothing
OnlyParens(s) == \A i \in 1..Len(s) : s[i] \in {"(", ")"}

RECURSIVE SegmentsNested(_, _, _, _)
\* the connective words split at every depth
SegmentsNested(s, i, depth, cur) ==
    IF i > Len(s) THEN <<[seg |-> cur, connective |-> "AND"]>>
    ELSE IF WordAt(s, i, AndNotWord)
    THEN <<[seg |-> cur, connective |-> "NOT"]>> \o SegmentsNested(s, i + Len(AndNotWord), depth, <<>>)
    ELSE IF WordAt(s, i, AndWord)
    THEN <<[seg |-> cur, connective |-> "AND"]>> \o SegmentsNested(s, i + Len(AndWord), depth, <<>>)
    ELSE IF WordAt(s, i, OrWord)
    THEN <<[seg |-> cur, connective |-> "OR"]>> \o SegmentsNested(s, i + Len(OrWord), depth, <<>>)
    ELSE SegmentsNested(s, i + 1, depth, Append(cur, s[i]))

RECURSIVE Segments(_, _, _, _)
\* step 2: the segments of s from position i on, split at the connective
\* words at depth 0, each with the connective that follows it
Segments(s, i, depth, cur) ==
    IF i > Len(s) THEN <<[seg |-> cur, connective |-> "AND"]>>
    ELSE IF depth = 0 /\ WordAt(s, i, AndNotWord)
    THEN <<[seg |-> cur, connective |-> "NOT"]>> \o Segments(s, i + Len(AndNotWord), 0, <<>>)
    ELSE IF depth = 0 /\ WordAt(s, i, AndWord)
    THEN <<[seg |-> cur, connective |-> "AND"]>> \o Segments(s, i + Len(AndWord), 0, <<>>)
    ELSE IF depth = 0 /\ WordAt(s, i, OrWord)
    THEN <<[seg |-> cur, connective |-> "OR"]>> \o Segments(s, i + Len(OrWord), 0, <<>>)
    ELSE Segments(s, i + 1,
             IF s[i] = "(" THEN depth + 1 ELSE IF s[i] = ")" THEN depth - 1 ELSE depth,
             Append(cur, s[i]))

\* the field of a field code
FieldOf(code) ==
    CASE code = "t" -> "title" [] code = "a" -> "creator" [] code = "d" -> "sub"

\* the last segment keeps the connective of the segment before it
LastConnectiveCarried(segs, i) ==
    IF i = Len(segs) /\ i > 1 THEN segs[i - 1].connective ELSE segs[i].connective

\* the connective of term i: that of its segment, AND for the last
ConnectiveOf(segs, i) == IF i = Len(segs) THEN "AND" ELSE segs[i].connective

\* the degenerate expression is decoded like any other
NoTermsNever(s) == FALSE

\* the expression has no term: nothing is left of it but parentheses
NoTerms(s) == OnlyParens(s)

\* step 3: the term of a segment
TermOf(segment, connective) ==
    LET s == StripPair(segment)
    IN  IF /\ Len(s) >= 4
           /\ s[1] \in {"t", "a", "d"}
           /\ s[2] = ":"
           /\ Enclosed(SubSeq(s, 3, Len(s)))
        THEN SearchTerm(FieldOf(s[1]), SubSeq(s, 4, Len(s) - 1), connective)
        ELSE SearchTerm("any", s, connective)

decodeAdvancedSearch(expression) ==
    LET s == StripWrap(expression)
        segs == Segments(s, 1, 0, <<>>)
    IN  IF NoTerms(s) THEN <<>>
        ELSE [i \in 1..Len(segs) |-> TermOf(segs[i].seg, ConnectiveOf(segs, i))]

\* the table of TestDecodeAdvancedSearch: the terms of each search
TestDecodeTable ==
    (<<>> :> <<>>) @@
    (<<"(", ")">> :> <<>>) @@
    (<<"(", "(", ")", ")">> :> <<>>) @@
    (<<")", ")">> :> <<>>) @@
    (<<"(", "(">> :> <<>>) @@
    (<<"s", "p", "i", "d", "e", "r", "s">> :> <<[field |-> "any", operator |-> "contains", text |-> <<"s", "p", "i", "d", "e", "r", "s">>, connective |-> "AND"]>>) @@
    (<<"(", "s", "p", "i", "d", "e", "r", "s", ")">> :> <<[field |-> "any", operator |-> "contains", text |-> <<"s", "p", "i", "d", "e", "r", "s">>, connective |-> "AND"]>>) @@
    (<<"t", ":", "(", "s", "p", "i", "d", "e", "r", "s", ")">> :> <<[field |-> "title", operator |-> "contains", text |-> <<"s", "p", "i", "d", "e", "r", "s">>, connective |-> "AND"]>>) @@
    (<<"(", "t", ":", "(", "s", "p", "i", "d", "e", "r", "s", ")", ")">> :> <<[field |-> "title", operator |-> "contains", text |-> <<"s", "p", "i", "d", "e", "r", "s">>, connective |-> "AND"]>>) @@
    (<<"(", "s", "p", "i", "d", "e", "r", "s", ")", " ", "a", "n", "d", " ", "(", "s", "n", "a", "k", "e", "s", ")">> :> <<[field |-> "any", operator |-> "contains", text |-> <<"s", "p", "i", "d", "e", "r", "s">>, connective |-> "AND"], [field |-> "any", operator |-> "contains", text |-> <<"s", "n", "a", "k", "e", "s">>, connective |-> "AND"]>>) @@
    (<<"(", "a", "n", "d", ")", " ", "a", "n", "d", " ", "(", "o", "r", ")">> :> <<[field |-> "any", operator |-> "contains", text |-> <<"a", "n", "d">>, connective |-> "AND"], [field |-> "any", operator |-> "contains", text |-> <<"o", "r">>, connective |-> "AND"]>>) @@
    (<<"(", "(", "s", "p", "i", "d", "e", "r", "s", ")", " ", "a", "n", "d", " ", "(", "s", "n", "a", "k", "e", "s", ")", ")">> :> <<[field |-> "any", operator |-> "contains", text |-> <<"s", "p", "i", "d", "e", "r", "s">>, connective |-> "AND"], [field |-> "any", operator |-> "contains", text |-> <<"s", "n", "a", "k", "e", "s">>, connective |-> "AND"]>>) @@
    (<<"(", "(", "(", "s", "p", "i", "d", "e", "r", "s", ")", " ", "a", "n", "d", " ", "(", "s", "n", "a", "k", "e", "s", ")", ")", ")">> :> <<[field |-> "any", operator |-> "contains", text |-> <<"s", "p", "i", "d", "e", "r", "s">>, connective |-> "AND"], [field |-> "any", operator |-> "contains", text |-> <<"s", "n", "a", "k", "e", "s">>, connective |-> "AND"]>>) @@
    (<<"(", "(", "(", "s", "p", "i", "d", "e", "r", "s", ")", " ", "a", "n", "d", " ", "s", "n", "a", "k", "e", "s", ")", ")">> :> <<[field |-> "any", operator |-> "contains", text |-> <<"s", "p", "i", "d", "e", "r", "s">>, connective |-> "AND"], [field |-> "any", operator |-> "contains", text |-> <<"s", "n", "a", "k", "e", "s">>, connective |-> "AND"]>>) @@
    (<<"(", "t", ":", "(", "s", "p", "i", "d", "e", "r", "s", ")", " ", "a", "n", "d", " ", "a", ":", "(", "l", "e", "e", ")", ")">> :> <<[field |-> "title", operator |-> "contains", text |-> <<"s", "p", "i", "d", "e", "r", "s">>, connective |-> "AND"], [field |-> "creator", operator |-> "contains", text |-> <<"l", "e", "e">>, connective |-> "AND"]>>) @@
    (<<"t", ":", "(", "s", "p", "i", "d", "e", "r", "s", ")", " ", "a", "n", "d", " ", "a", ":", "(", "l", "e", "e", ")">> :> <<[field |-> "title", operator |-> "contains", text |-> <<"s", "p", "i", "d", "e", "r", "s">>, connective |-> "AND"], [field |-> "creator", operator |-> "contains", text |-> <<"l", "e", "e">>, connective |-> "AND"]>>) @@
    (<<"(", "t", ":", "(", "s", "p", "i", "d", "e", "r", "s", ")", " ", "a", "n", "d", " ", "n", "o", "t", " ", "d", ":", "(", "b", "i", "o", "l", "o", "g", "y", ")", ")">> :> <<[field |-> "title", operator |-> "contains", text |-> <<"s", "p", "i", "d", "e", "r", "s">>, connective |-> "NOT"], [field |-> "sub", operator |-> "contains", text |-> <<"b", "i", "o", "l", "o", "g", "y">>, connective |-> "AND"]>>) @@
    (<<"(", "t", ":", "s", "p", "i", "d", "e", "r", "s", ")", " ", "a", "n", "d", " ", "n", "o", "t", " ", "(", "d", ":", "b", "i", "o", "l", "o", "g", "y", ")">> :> <<[field |-> "any", operator |-> "contains", text |-> <<"t", ":", "s", "p", "i", "d", "e", "r", "s">>, connective |-> "NOT"], [field |-> "any", operator |-> "contains", text |-> <<"d", ":", "b", "i", "o", "l", "o", "g", "y">>, connective |-> "AND"]>>) @@
    (<<"(", "t", ":", "s", "p", "i", "d", "e", "r", "s", ")", " ", "o", "r", " ", "d", ":", "(", "b", "i", "o", "l", "o", "g", "y", ")">> :> <<[field |-> "any", operator |-> "contains", text |-> <<"t", ":", "s", "p", "i", "d", "e", "r", "s">>, connective |-> "OR"], [field |-> "sub", operator |-> "contains", text |-> <<"b", "i", "o", "l", "o", "g", "y">>, connective |-> "AND"]>>) @@
    (<<"(", "t", ":", "(", "s", "p", "i", "d", "e", "r", "s", ")", " ", "A", "N", "D", " ", "N", "O", "T", " ", "d", ":", "(", "b", "i", "o", "l", "o", "g", "y", ")", ")">> :> <<[field |-> "title", operator |-> "contains", text |-> <<"s", "p", "i", "d", "e", "r", "s">>, connective |-> "NOT"], [field |-> "sub", operator |-> "contains", text |-> <<"b", "i", "o", "l", "o", "g", "y">>, connective |-> "AND"]>>) @@
    (<<"(", "t", ":", "(", "s", "p", "i", "d", "e", "r", "s", ")", " ", "O", "R", " ", "d", ":", "(", "b", "i", "o", "l", "o", "g", "y", ")", ")">> :> <<[field |-> "title", operator |-> "contains", text |-> <<"s", "p", "i", "d", "e", "r", "s">>, connective |-> "OR"], [field |-> "sub", operator |-> "contains", text |-> <<"b", "i", "o", "l", "o", "g", "y">>, connective |-> "AND"]>>) @@
    (<<"(", "t", ":", "(", "s", "p", "i", "d", "e", "r", "s", ")", " ", "o", "r", " ", "a", ":", "(", "l", "e", "e", ")", ")">> :> <<[field |-> "title", operator |-> "contains", text |-> <<"s", "p", "i", "d", "e", "r", "s">>, connective |-> "OR"], [field |-> "creator", operator |-> "contains", text |-> <<"l", "e", "e">>, connective |-> "AND"]>>) @@
    (<<"(", "(", "t", ":", "(", "s", "p", "i", "d", "e", "r", "s", ")", " ", "o", "r", " ", "a", ":", "(", "l", "e", "e", ")", ")", ")">> :> <<[field |-> "title", operator |-> "contains", text |-> <<"s", "p", "i", "d", "e", "r", "s">>, connective |-> "OR"], [field |-> "creator", operator |-> "contains", text |-> <<"l", "e", "e">>, connective |-> "AND"]>>) @@
    (<<"(", "(", "(", "t", ":", "(", "s", "p", "i", "d", "e", "r", "s", ")", " ", "o", "r", " ", "a", ":", "(", "l", "e", "e", ")", ")", ")", ")">> :> <<[field |-> "title", operator |-> "contains", text |-> <<"s", "p", "i", "d", "e", "r", "s">>, connective |-> "OR"], [field |-> "creator", operator |-> "contains", text |-> <<"l", "e", "e">>, connective |-> "AND"]>>) @@
    (<<"(", "t", ":", "(", "a", "n", "d", ")", " ", "o", "r", " ", "a", ":", "(", "l", "e", "e", ")", ")">> :> <<[field |-> "title", operator |-> "contains", text |-> <<"a", "n", "d">>, connective |-> "OR"], [field |-> "creator", operator |-> "contains", text |-> <<"l", "e", "e">>, connective |-> "AND"]>>) @@
    (<<"(", "t", ":", "(", "s", "p", "i", "d", "e", "r", "s", " ", "a", "n", "d", " ", "s", "n", "a", "k", "e", "s", ")", " ", "a", "n", "d", " ", "n", "o", "t", " ", "d", ":", "(", "b", "i", "o", "l", "o", "g", "y", ")", " ", "o", "r", " ", "a", ":", "(", "l", "e", "e", ")", ")">> :> <<[field |-> "title", operator |-> "contains", text |-> <<"s", "p", "i", "d", "e", "r", "s", " ", "a", "n", "d", " ", "s", "n", "a", "k", "e", "s">>, connective |-> "NOT"], [field |-> "sub", operator |-> "contains", text |-> <<"b", "i", "o", "l", "o", "g", "y">>, connective |-> "OR"], [field |-> "creator", operator |-> "contains", text |-> <<"l", "e", "e">>, connective |-> "AND"]>>)

TestSearches == DOMAIN TestDecodeTable

(***************************************************************************)
(* processLine on its own: a line is drawn and processLine is applied.     *)
(***************************************************************************)
\* the lines of TestProcessLine
TestLines ==
    { <<>>,
      <<"0", ",", "b", "0">>,
      <<"1", ",", "b", "1", "-">>,
      <<"1", ",", "b", "-">>,
      <<"1", ",", "-">>,
      <<"i", "n", "v", "a", "l", "i", "d", ",", "a", "0", "-">>,
      <<"0", ",", "i", "n", "v", "a", "l", "i", "d">>,
      <<"9", "0", "0", "0", "0", "0", "0", "0", "0", "0", "0", "0", "0", "0", "0", "0", "0", "1", ",", "b", "1", "0", "0", "0", "0", "0", "1", "-", "0", "1", "s", "u", "f", "f", "i", "x", ",">>,
      <<"9", "0", "0", "0", "0", "0", "0", "0", "0", "0", "0", "0", "0", "0", "0", "0", "0", "1", ",", "b", "1", "0", "0", "0", "0", "0", "1", "-", "0", "1", "s", "u", "f", "f", "i", "x", ",", ",", ",", ",", ",">>,
      <<"9", "0", "0", "0", "0", "0", "0", "0", "0", "0", "0", "0", "0", "0", "0", "0", "0", "1", ",", "b", "1", "0", "0", "0", "0", "0", "1", "-", "0", "1", "s", "u", "f", "f", "i", "x">>,
      <<"1", "8", "4", "4", "6", "7", "4", "4", "0", "7", "3", "7", "0", "9", "5", "5", "1", "6", "1", "5", ",", "b", "4", "2", "9", "4", "9", "6", "7", "2", "9", "5", "-", "0", "1", "s", "u", "f", "f", "i", "x", ",">>,
      <<"1", "8", "4", "4", "6", "7", "4", "4", "0", "7", "3", "7", "0", "9", "5", "5", "1", "6", "1", "6", ",", "b", "4", "2", "9", "4", "9", "6", "7", "2", "9", "6", "-", "0", "1", "s", "u", "f", "f", "i", "x", ",">>,
      <<"-", "1", ",", "a", "-", "1">> }

\* lines out of the format
OddLines ==
    { <<"1", ",">>,
      <<"1", ",", "b">>,
      <<"1", ",", ",", "b", "1">>,
      <<",", "b", "1">>,
      <<",">>,
      <<"1", ",", "b", "1", "-", "2", "-", "3">>,
      <<"1", ",", "b", "1", " ">>,
      <<"1", ",", "b", "+", "1">>,
      <<"1", " ", ",", "b", "1">>,
      <<"1", ",", "b", "b", "1">> }

\* the parts of a line "<target>,<flag><legacy>[-<suffix>][,...]"
Targets ==
    { <<"0">>,
      <<"1">>,
      <<"0", "0", "7">>,
      <<"9", "0", "0", "0", "0", "0", "0", "0", "0", "0", "0", "0", "0", "0", "0", "0", "0", "1">>,
      <<"1", "8", "4", "4", "6", "7", "4", "4", "0", "7", "3", "7", "0", "9", "5", "5", "1", "6", "1", "5">>,
      <<"1", "8", "4", "4", "6", "7", "4", "4", "0", "7", "3", "7", "0", "9", "5", "5", "1", "6", "1", "6">>,
      <<"2", "8", "4", "4", "6", "7", "4", "4", "0", "7", "3", "7", "0", "9", "5", "5", "1", "6", "1", "5">>,
      <<"1", "1", "8", "4", "4", "6", "7", "4", "4", "0", "7", "3", "7", "0", "9", "5", "5", "1", "6", "1", "5">> }

Flags == {"b", "a"}

Legacies ==
    { <<"0">>,
      <<"1">>,
      <<"0", "0", "7">>,
      <<"1", "0", "0", "0", "0", "0", "1">>,
      <<"4", "2", "9", "4", "9", "6", "7", "2", "9", "5">>,
      <<"4", "2", "9", "4", "9", "6", "7", "2", "9", "6">>,
      <<"5", "2", "9", "4", "9", "6", "7", "2", "9", "5">>,
      <<"1", "4", "2", "9", "4", "9", "6", "7", "2", "9", "5">>,
      <<"1", "8", "4", "4", "6", "7", "4", "4", "0", "7", "3", "7", "0", "9", "5", "5", "1", "6", "1", "6">> }

Suffixes == { <<>>, <<"-">>, <<"-", "0", "1", "s", "u", "f", "f", "i", "x">> }

Extras == { <<>>, <<",">>, <<",", ",", ",", ",", ",">>, <<",", "x", ",", "-">> }

MkLine(target, flag, legacy, suffix, extra) ==
    target \o <<",", flag>> \o legacy \o suffix \o extra

FormatLines ==
    { MkLine(tg, f, lg, sf, ex) :
        tg \in Targets, f \in Flags, lg \in Legacies, sf \in Suffixes, ex \in Extras }

LineInputs == TestLines \cup OddLines \cup FormatLines

InitLine ==
    /\ pc = "processLine"
    /\ line \in LineInputs
    /\ parsed = NoResult
    /\ subdomain = <<>>
    /\ vid = <<>>
    /\ primo = <<>>
    /\ numFiles = 0
    /\ fileIdx = 1
    /\ fileOpen = FALSE
    /\ lnum = 0
    /\ idMap = <<>>
    /\ fatalErr = NoErr
    /\ req = NoRequest
    /\ resp = <<>>
    /\ ExtInit

\* the call processLine(line)
CallProcessLine ==
    /\ pc = "processLine"
    /\ parsed = NoResult
    /\ parsed' = processLine(line)
    /\ pc' = IF parsed'.err = "panic" THEN "panicked" ELSE "returned"
    /\ UNCHANGED ext
    /\ UNCHANGED <<subdomain, vid, primo, numFiles, fileIdx, fileOpen, lnum, idMap,
                   line, fatalErr, req, resp>>

NextLine == CallProcessLine

SpecLine == InitLine /\ [][NextLine]_vars

(***************************************************************************)
(* decodeAdvancedSearch on its own: an expression is drawn and decoded.    *)
(***************************************************************************)
\* segments an expression has at most
MaxSegments == 2

\* pairs of parentheses around a whole expression, at most
MaxWrap == 1

\* segments as they are written, with the field and the text written in them;
\* a group is a parenthesis pair with a connective word inside
DecodeSegments ==
  { [src |-> <<"s", "p", "i", "d", "e", "r", "s">>,
      field |-> "any", text |-> <<"s", "p", "i", "d", "e", "r", "s">>, group |-> FALSE],
    [src |-> <<"(", "s", "n", "a", "k", "e", "s", ")">>,
      field |-> "any", text |-> <<"s", "n", "a", "k", "e", "s">>, group |-> FALSE],
    [src |-> <<"t", ":", "(", "s", "p", "i", "d", "e", "r", "s", ")">>,
      field |-> "title", text |-> <<"s", "p", "i", "d", "e", "r", "s">>, group |-> FALSE],
    [src |-> <<"a", ":", "(", "l", "e", "e", ")">>,
      field |-> "creator", text |-> <<"l", "e", "e">>, group |-> FALSE],
    [src |-> <<"d", ":", "(", "a", "n", "d", ")">>,
      field |-> "sub", text |-> <<"a", "n", "d">>, group |-> FALSE],
    [src |-> <<"t", ":", "(", "s", "p", "i", "d", "e", "r", "s", " ", "a", "n", "d", " ", "s", "n", "a", "k", "e", "s", ")">>,
      field |-> "title", text |-> <<"s", "p", "i", "d", "e", "r", "s", " ", "a", "n", "d", " ", "s", "n", "a", "k", "e", "s">>, group |-> FALSE],
    [src |-> <<"d", ":", "(", "b", "i", "o", "l", "o", "g", "y", " ", "o", "r", " ", "n", "o", "t", ")">>,
      field |-> "sub", text |-> <<"b", "i", "o", "l", "o", "g", "y", " ", "o", "r", " ", "n", "o", "t">>, group |-> FALSE],
    [src |-> <<"(", "c", "a", "t", "s", " ", "o", "r", " ", "d", "o", "g", "s", ")">>,
      field |-> "any", text |-> <<"c", "a", "t", "s", " ", "o", "r", " ", "d", "o", "g", "s">>, group |-> TRUE] }

\* the connective words as they are written, and the connective each names
ConnectiveWords ==
    { [word |-> <<" ", "a", "n", "d", " ">>, connective |-> "AND"],
      [word |-> <<" ", "o", "r", " ">>, connective |-> "OR"],
      [word |-> <<" ", "a", "n", "d", " ", "n", "o", "t", " ">>, connective |-> "NOT"],
      [word |-> <<" ", "A", "N", "D", " ", "N", "O", "T", " ">>, connective |-> "NOT"],
      [word |-> <<" ", "O", "r", " ">>, connective |-> "OR"] }

\* expressions of nothing but parentheses that the test does not have
OddSearches == { <<")", "(">>, <<"(", ")", "(", ")">>, <<"(", "(", ")">>, <<")">> }

RECURSIVE Join(_, _)
\* the segments with the connective words between them
Join(segs, words) ==
    IF Len(segs) = 1 THEN segs[1].src
    ELSE segs[1].src \o words[1].word \o Join(Tail(segs), Tail(words))

RECURSIVE Wrap(_, _)
\* n pairs of parentheses around s
Wrap(s, n) == IF n = 0 THEN s ELSE Wrap(<<"(">> \o s \o <<")">>, n - 1)

\* the expression written from its parts
Render(p) == Wrap(Join(p.segs, p.words), p.wrap)

\* the parts of the expressions: a group alone is the wrap of what is in it,
\* so it stands only next to another segment
SearchParts ==
    { p \in UNION { [wrap : 0..MaxWrap, segs : [1..n -> DecodeSegments],
                     words : [1..(n - 1) -> ConnectiveWords]] : n \in 1..MaxSegments } :
        Len(p.segs) = 1 => ~p.segs[1].group }

\* the expression was written from parts
Structured == parts # NoParts

InitDecode ==
    /\ pc = "decode"
    /\ \/ /\ search \in TestSearches \cup OddSearches
          /\ parts = NoParts
       \/ /\ parts \in SearchParts
          /\ search = Render(parts)
    /\ terms = <<>>
    /\ handlers = [h \in 1..MaxHandlers |-> IdleHandler]
    /\ sigpc = "none"
    /\ listener = "none"
    /\ shutdown = FALSE
    /\ line = <<>>
    /\ parsed = NoResult
    /\ subdomain = <<>>
    /\ vid = <<>>
    /\ primo = <<>>
    /\ numFiles = 0
    /\ fileIdx = 1
    /\ fileOpen = FALSE
    /\ lnum = 0
    /\ idMap = <<>>
    /\ fatalErr = NoErr
    /\ req = NoRequest
    /\ resp = <<>>

\* the call decodeAdvancedSearch(tt.search)
CallDecode ==
    /\ pc = "decode"
    /\ terms' = decodeAdvancedSearch(search)
    /\ pc' = "decoded"
    /\ UNCHANGED <<search, parts, handlers, sigpc, listener, shutdown>>
    /\ UNCHANGED <<subdomain, vid, primo, numFiles, fileIdx, fileOpen, lnum, idMap,
                   line, parsed, fatalErr, req, resp>>

NextDecode == CallDecode

SpecDecode == InitDecode /\ [][NextDecode]_vars

\* reflect.DeepEqual(terms, tt.terms) for every row of the table
TestDecodePasses ==
    (pc = "decoded" /\ search \in TestSearches) => terms = TestDecodeTable[search]

(***************************************************************************)
(* The server on its own: the table is loaded, the goroutine that waits    *)
(* for a signal is started, and requests are served by goroutines of the   *)
(* server, each step of a handler of its own.                              *)
(***************************************************************************)
\* the mapping files that were loaded
ServeFiles ==
    { <<>>,
      <<<<"1", ",", "b", "1", "-">>>>,
      <<<<"1", ",", "b", "1", "-">>,
        <<"9", "9", "1", "0", "1", "8", "7", "0", "5", "4", "5", "9", "7", "0", "5", "1", "5", "3", ",", "b", "2", "4", "0", "5", "3", "8", "0", "-", "0", "1", "s", "u", "f", "f", "i", "x", ",">>>> }

RECURSIVE LoadLines(_, _, _)
\* the table after the lines of a file, from line n on
LoadLines(m, n, lines) ==
    IF lines = <<>> THEN m ELSE LoadLines(scanLine(m, n, Head(lines)).m, n + 1, Tail(lines))

\* the requests the clients send
ServeRequests ==
    { r \in Requests :
        /\ r.Path \in { RecordPrefix \o <<"1">>,
                        RecordPrefix \o <<"2", "4", "0", "5", "3", "8", "0">>,
                        <<"/", "s", "e", "a", "r", "c", "h">> }
        /\ r.RawQuery \in { <<<<"searcharg", <<"s", "p", "i", "d", "e", "r", "s">>>>>>,
                            <<<<"vid", <<"x">>>>>> } }

\* main has loaded one mapping file and is past the loop
InitServe ==
    /\ pc = "load"
    /\ subdomain = <<"o", "c", "u", "l", "-", "c", "r", "l">>
    /\ vid = <<"0", "1", "O", "C", "U", "L", "_", "C", "R", "L", ":", "C", "R", "L", "_", "D", "E", "F", "A", "U", "L", "T">>
    /\ primo = subdomain \o <<".">> \o PrimoDomain
    /\ numFiles = 1
    /\ fileIdx = 2
    /\ fileOpen = FALSE
    /\ lnum = 0
    /\ \E lines \in ServeFiles : idMap = LoadLines(<<>>, 1, lines)
    /\ line = <<>>
    /\ parsed = NoResult
    /\ fatalErr = NoErr
    /\ req = NoRequest
    /\ resp = <<>>
    /\ ExtInit

\* what a step of the server leaves alone
ServeFrame ==
    UNCHANGED <<subdomain, vid, primo, numFiles, fileIdx, fileOpen, lnum, idMap,
                line, parsed, req, resp, search, parts, terms>>

\* the process has ended: no goroutine takes a step
Ended == pc \in {"stopped", "exited", "panicked"}

\* main, from the end of the loop to the go statement: the mux, the server,
\* the shutdown channel, and the goroutine that waits for a signal
GoWaitForSignal ==
    /\ pc = "load"
    /\ LoadComplete
    /\ sigpc = "none"
    /\ pc' = "listen"
    /\ sigpc' = "waiting"
    /\ UNCHANGED <<handlers, listener, shutdown, fatalErr>>
    /\ ServeFrame

\* server.Shutdown has been called
ShuttingDown == sigpc \in {"shutdown", "returned", "done"}

\* server.ListenAndServe: ErrServerClosed at once when the server is shutting
\* down, else the listener is opened
ListenAndServe ==
    /\ pc = "listen"
    /\ IF ShuttingDown
       THEN pc' = "waitShutdown" /\ listener' = listener
       ELSE pc' = "accepting" /\ listener' = "open"
    /\ UNCHANGED <<handlers, sigpc, shutdown, fatalErr>>
    /\ ServeFrame

\* net.Listen gives an error: log.Fatalf
ListenFails ==
    /\ pc = "listen"
    /\ ~ShuttingDown
    /\ pc' = "exited"
    /\ fatalErr' = Err("Fatal server error", 0, <<>>, Zero, 0)
    /\ UNCHANGED <<handlers, sigpc, listener, shutdown>>
    /\ ServeFrame

\* every goroutine reads the variable of one of them
redirectToShared(hs, h) == hs[1].redirectTo

\* redirectTo of the call of goroutine h: declared in ServeHTTP, one for each call
redirectToOf(hs, h) == hs[h].redirectTo

\* the server accepts a connection, reads a request and calls ServeHTTP in a
\* goroutine of its own; ServeHTTP sets redirectTo to the default case
Accept(h) ==
    /\ pc = "accepting"
    /\ listener = "open"
    /\ handlers[h].stage = "idle"
    /\ \E r \in ServeRequests :
         handlers' = [handlers EXCEPT ![h] =
             [@ EXCEPT !.stage = "called", !.r = r,
                       !.redirectTo = [Scheme |-> "https", Host |-> primo,
                                       Path |-> "/discovery/search", RawQuery |-> <<>>]]]
    /\ UNCHANGED <<pc, sigpc, listener, shutdown, fatalErr>>
    /\ ServeFrame

\* the switch of ServeHTTP: the case of the request builds redirectTo, the
\* record case reads d.idMap
Switch(h) ==
    /\ ~Ended
    /\ handlers[h].stage = "called"
    /\ handlers' = [handlers EXCEPT ![h] =
           [@ EXCEPT !.stage = "built",
                     !.redirectTo = Build(Dispatch(handlers[h].r.Path), redirectToOf(handlers, h),
                                          handlers[h].r, idMap)]]
    /\ UNCHANGED <<pc, sigpc, listener, shutdown, fatalErr>>
    /\ ServeFrame

\* the end of ServeHTTP: the vid is set and the redirect is written to w
Redirect(h) ==
    /\ ~Ended
    /\ handlers[h].stage = "built"
    /\ handlers' = [handlers EXCEPT ![h] =
           [@ EXCEPT !.stage = "written",
                     !.w = <<[rule |-> Dispatch(handlers[h].r.Path),
                              status |-> StatusMovedPermanently,
                              Location |-> setParamInURL(redirectToOf(handlers, h), "vid", vid)]>>]]
    /\ UNCHANGED <<pc, sigpc, listener, shutdown, fatalErr>>
    /\ ServeFrame

\* ServeHTTP returns, the response is sent and the connection is idle
Return(h) ==
    /\ ~Ended
    /\ handlers[h].stage = "written"
    /\ handlers' = [handlers EXCEPT ![h] =
           [IdleHandler EXCEPT !.atShutdown = handlers[h].atShutdown]]
    /\ UNCHANGED <<pc, sigpc, listener, shutdown, fatalErr>>
    /\ ServeFrame

\* SIGINT or SIGTERM: <-sigs gives a value
Signal ==
    /\ ~Ended
    /\ sigpc = "waiting"
    /\ sigpc' = "signalled"
    /\ UNCHANGED <<pc, handlers, listener, shutdown, fatalErr>>
    /\ ServeFrame

\* server.Shutdown is called: the listener is closed, the requests in flight
\* are left to their handlers
CallShutdown ==
    /\ ~Ended
    /\ sigpc = "signalled"
    /\ sigpc' = "shutdown"
    /\ listener' = IF listener = "open" THEN "closed" ELSE listener
    /\ handlers' = [h \in DOMAIN handlers |->
                       [handlers[h] EXCEPT !.atShutdown = (handlers[h].stage # "idle")]]
    /\ UNCHANGED <<pc, shutdown, fatalErr>>
    /\ ServeFrame

\* Shutdown returns without waiting for the connections
connsNotAwaited(hs) == TRUE

\* every connection of the server is idle: what Shutdown waits for with
\* context.Background()
connsIdle(hs) == \A h \in DOMAIN hs : hs[h].stage = "idle"

\* server.Shutdown returns
ShutdownReturns ==
    /\ ~Ended
    /\ sigpc = "shutdown"
    /\ connsIdle(handlers)
    /\ sigpc' = "returned"
    /\ UNCHANGED <<pc, handlers, listener, shutdown, fatalErr>>
    /\ ServeFrame

\* close(shutdown)
CloseShutdown ==
    /\ ~Ended
    /\ sigpc = "returned"
    /\ sigpc' = "done"
    /\ shutdown' = TRUE
    /\ UNCHANGED <<pc, handlers, listener, fatalErr>>
    /\ ServeFrame

\* Accept fails on the closed listener: ListenAndServe returns ErrServerClosed
ServeReturns ==
    /\ pc = "accepting"
    /\ listener = "closed"
    /\ pc' = "waitShutdown"
    /\ UNCHANGED <<handlers, sigpc, listener, shutdown, fatalErr>>
    /\ ServeFrame

\* <-shutdown gives: "Server stopped." and main returns
ServerStopped ==
    /\ pc = "waitShutdown"
    /\ shutdown
    /\ pc' = "stopped"
    /\ UNCHANGED <<handlers, sigpc, listener, shutdown, fatalErr>>
    /\ ServeFrame

NextServe ==
    \/ GoWaitForSignal
    \/ ListenAndServe
    \/ ListenFails
    \/ \E h \in DOMAIN handlers : Accept(h)
    \/ \E h \in DOMAIN handlers : Switch(h)
    \/ \E h \in DOMAIN handlers : Redirect(h)
    \/ \E h \in DOMAIN handlers : Return(h)
    \/ Signal
    \/ CallShutdown
    \/ ShutdownReturns
    \/ CloseShutdown
    \/ ServeReturns
    \/ ServerStopped

SpecServe == InitServe /\ [][NextServe]_vars

(***************************************************************************)
(* What the properties below read off a state.                             *)
(***************************************************************************)
\* a request has been answered
Handled == resp # <<>>

\* the URL of the redirect
Out == resp[1].Location

\* the query parameters a client reads off the URL of the redirect
OutParams == ParseQuery(Out.RawQuery)

\* the query parameters of the request
InParams == ParseQuery(req.RawQuery)

\* s is a non-empty string of decimal digits
IsDecimal(s) == s # <<>> /\ \A i \in 1..Len(s) : IsDigit(s[i])

RECURSIVE StripZeros(_)
StripZeros(n) == IF Len(n) > 1 /\ n[1] = 0 THEN StripZeros(Tail(n)) ELSE n

\* the number a string of decimal digits denotes
DecimalValue(s) == StripZeros([i \in 1..Len(s) |-> DigitVal(s[i])])

\* what follows the record prefix in the path of the request
RecordSuffix == SubSeq(req.Path, Len(RecordPrefix) + 1, Len(req.Path))

(***************************************************************************)
(* The properties.                                                         *)
(***************************************************************************)

\* C1: a request for "/record=b" followed by s is redirected to the record
\* page /discovery/fulldisplay with docid = "alma" and the mapped target ID
\* when s is a decimal number of at most 32 bits that is a key of the table,
\* and to /discovery/search without a docid in every other case.
C1_RecordResolution ==
    (Handled /\ HasPrefix(req.Path, RecordPrefix)) =>
        IF /\ IsDecimal(RecordSuffix)
           /\ NumLE(DecimalValue(RecordSuffix), MaxUint32)
           /\ DecimalValue(RecordSuffix) \in DOMAIN idMap
        THEN /\ Out.Path = "/discovery/fulldisplay"
             /\ "docid" \in DOMAIN OutParams
             /\ OutParams["docid"] = <<Alma \o FormatUint(idMap[DecimalValue(RecordSuffix)])>>
        ELSE /\ Out.Path = "/discovery/search"
             /\ "docid" \notin DOMAIN OutParams

\* "/record=b2405380" is answered with docid=alma991018705459705153
C1_Witness ==
    /\ Handled
    /\ req.Path = RecordPrefix \o <<"2", "4", "0", "5", "3", "8", "0">>
    /\ Out.Path = "/discovery/fulldisplay"
    /\ OutParams["docid"] = <<<<"a", "l", "m", "a", "9", "9", "1", "0", "1", "8", "7", "0", "5", "4", "5", "9", "7", "0", "5", "1", "5", "3">>>>

\* the rules in the order of their declaration
Rules ==
    << <<RecordPrefix, "record">>,
       <<PatronInfoPrefix, "patroninfo">>,
       <<SearchAuthorIndexPrefix, "author">>,
       <<SearchCallNumberIndexPrefix, "callnumber">>,
       <<SearchTitleIndexPrefix, "title">>,
       <<SearchPrefix, "search">>,
       <<SearchResultRecordPrefix, "searchresult">> >>

Matching(path) == {i \in 1..Len(Rules) : HasPrefix(path, Rules[i][1])}

FirstMatch(path) ==
    IF Matching(path) = {} THEN "default"
    ELSE Rules[CHOOSE i \in Matching(path) : \A j \in Matching(path) : i <= j][2]

\* C2: the builder that runs is the one of the first rule, in the order of
\* declaration, whose prefix is a prefix of the path, whatever later rules
\* match too; when none matches the URL is the default search page.
C2_FirstMatchWins ==
    Handled =>
        /\ resp[1].rule = FirstMatch(req.Path)
        /\ Matching(req.Path) = {} =>
              (Out.Path = "/discovery/search" /\ DOMAIN OutParams = {"vid"})

\* "/search/abc" matches the author rule and the search rule: the author's runs
C2_Witness ==
    /\ Handled
    /\ req.Path = <<"/", "s", "e", "a", "r", "c", "h", "/", "a", "b", "c">>
    /\ Cardinality(Matching(req.Path)) = 2
    /\ resp[1].rule = "author"
    /\ OutParams["browseScope"] = <<<<"a", "u", "t", "h", "o", "r">>>>

\* C3: a line whose legacy ID is already a key of the table, from this file
\* or an earlier one, ends the load at once with an error naming the ID; the
\* entry keeps its target ID and nothing is processed after it.
C3_DuplicateIsFatal ==
    [][ /\ (pc = "load" /\ lnum' = lnum + 1 /\ parsed'.err = "nil"
              /\ parsed'.bibID \in DOMAIN idMap)
           => /\ pc' = "exited"
              /\ fatalErr'.msg = "Previously seen Bib ID was encountered"
              /\ fatalErr'.bibID = parsed'.bibID
              /\ idMap' = idMap
        /\ pc = "exited" => (idMap' = idMap /\ lnum' = lnum /\ pc' = "exited")
        /\ \A k \in DOMAIN idMap : k \in DOMAIN idMap' /\ idMap'[k] = idMap[k]
      ]_vars

\* the second file repeats an ID of the first with another target ID
C3_Witness ==
    /\ pc = "exited"
    /\ fatalErr.msg = "Previously seen Bib ID was encountered"
    /\ fileIdx = 2
    /\ lnum = 1
    /\ parsed.bibID = fatalErr.bibID
    /\ idMap[fatalErr.bibID] # parsed.exlID

\* C4: requests are served only after every mapping file has been read to
\* its end without an error; a load that fails ends the process with no
\* request served.
C4_ServeAfterLoad ==
    /\ pc = "serving" => (fileIdx = numFiles + 1 /\ ~fileOpen /\ fatalErr = NoErr)
    /\ Handled => pc = "serving"
    /\ fatalErr # NoErr => pc = "exited"
    /\ pc \in {"exited", "panicked"} => ~Handled

\* a request served from the table of two files
C4_Witness ==
    /\ Handled
    /\ numFiles = 2
    /\ Cardinality(DOMAIN idMap) = 3

\* C5: every request is answered once, with a 301 redirect to an https URL
\* on the configured host.
C5_AlwaysRedirect ==
    Handled =>
        /\ Len(resp) = 1
        /\ resp[1].status = 301
        /\ Out.Scheme = "https"
        /\ Out.Host = subdomain \o <<".">> \o PrimoDomain

\* a record request with a malformed ID is redirected
C5_Witness ==
    /\ Handled
    /\ req.Path = RecordPrefix \o <<"-", "1">>
    /\ resp[1].status = 301

\* C6: the URL of every redirect carries vid once, with the configured value.
C6_VidOnce ==
    Handled =>
        /\ Cardinality({i \in 1..Len(Out.RawQuery) : Out.RawQuery[i][1] = "vid"}) = 1
        /\ "vid" \in DOMAIN OutParams
        /\ OutParams["vid"] = <<vid>>

\* a request that names a vid of its own, to the rule that builds nothing
C6_Witness ==
    /\ Handled
    /\ resp[1].rule = "searchresult"
    /\ "vid" \in DOMAIN InParams
    /\ InParams["vid"] # <<vid>>
    /\ Out.RawQuery = <<<<"vid", QueryEscape(vid)>>>>

\* C7: processLine returns for every line, with a pair or an error, and
\* with an error for a line of fewer than two fields.
C7_ParserTotal ==
    /\ parsed.err # "panic"
    /\ (parsed # NoResult /\ Len(Split(line, ",")) < 2) => parsed.err # "nil"

\* C8: for a line "<target>,<flag><legacy>[-<suffix>][,...]" of decimal
\* digits, processLine returns (legacy, target) without an error exactly
\* when legacy <= 2^32-1 and target <= 2^64-1, an error otherwise, and the
\* same with and without the trailing fields.
C8_RangeChecked ==
    \A tg \in Targets, f \in Flags, lg \in Legacies, sf \in Suffixes, ex \in Extras :
        (parsed # NoResult /\ line = MkLine(tg, f, lg, sf, ex)) =>
            /\ parsed.err = "nil" <=>
                  (NumLE(DecimalValue(lg), MaxUint32) /\ NumLE(DecimalValue(tg), MaxUint64))
            /\ parsed.err = "nil" =>
                  (parsed.bibID = DecimalValue(lg) /\ parsed.exlID = DecimalValue(tg))
            /\ parsed.err # "nil" => parsed.err = "ErrRange"
            /\ parsed = processLine(MkLine(tg, f, lg, sf, <<>>))

\* the largest IDs, with a suffix and trailing fields
C8_Witness ==
    /\ line = MkLine(<<"1", "8", "4", "4", "6", "7", "4", "4", "0", "7", "3", "7", "0", "9", "5", "5", "1", "6", "1", "5">>, "b",
                     <<"4", "2", "9", "4", "9", "6", "7", "2", "9", "5">>, <<"-", "0", "1", "s", "u", "f", "f", "i", "x">>, <<",", ",", ",", ",", ",">>)
    /\ parsed.err = "nil"
    /\ parsed.bibID = MaxUint32
    /\ parsed.exlID = MaxUint64

\* the index types with the prefix that selects each and its browseScope
IndexTypes ==
    { <<SearchAuthorIndexPrefix, <<"a", "u", "t", "h", "o", "r">>>>,
      <<SearchCallNumberIndexPrefix, <<"c", "a", "l", "l", "n", "u", "m", "b", "e", "r", ".", "0">>>>,
      <<SearchTitleIndexPrefix, <<"t", "i", "t", "l", "e">>>> }

\* C9: a request to the author, call number or title index is redirected to
\* /discovery/browse with the browseScope of that index and the SEARCH text
\* as browseQuery.
C9_IndexBrowse ==
    \A idx \in IndexTypes :
        (Handled /\ HasPrefix(req.Path, idx[1])) =>
            /\ Out.Path = "/discovery/browse"
            /\ Get(OutParams, "browseScope") = idx[2]
            /\ Get(OutParams, "browseQuery") = Get(InParams, "SEARCH")

\* the field named for a searchtype code
ClaimedField(searchtype) ==
    CASE searchtype = <<"t">> -> <<"t", "i", "t", "l", "e">>
      [] searchtype = <<"a">> -> <<"c", "r", "e", "a", "t", "o", "r">>
      [] searchtype = <<"d">> -> <<"s", "u", "b">>
      [] searchtype = <<"c">> -> <<"c", "a", "l", "l", "n", "u", "m", "b", "e", "r">>
      [] OTHER -> <<"a", "n", "y">>

\* the sortby value of a searchdropdown code
ClaimedSort ==
    [c \in {<<"t">>, <<"a">>, <<"c">>, <<"r">>} |->
        CASE c = <<"t">> -> <<"t", "i", "t", "l", "e">>
          [] c = <<"a">> -> <<"a", "u", "t", "h", "o", "r">>
          [] c = <<"c">> -> <<"d", "a", "t", "e", "_", "a">>
          [] c = <<"r">> -> <<"d", "a", "t", "e", "_", "d">>]

\* a request has gone to the search builder with a search text
Searched == Handled /\ resp[1].rule = "search" /\ Get(InParams, "searcharg") # <<>>

\* C10 as stated: every search with a search text is redirected with a
\* parameter "<field>,contains,<text>", the field by the searchtype code.
C10_AsStated ==
    Searched =>
        /\ "query" \in DOMAIN OutParams
        /\ \E i \in 1..Len(OutParams["query"]) :
              OutParams["query"][i] =
                  ClaimedField(Get(InParams, "searchtype")) \o Contains \o Get(InParams, "searcharg")

\* C10: a search with a search text and a searchtype other than c is
\* redirected with the one parameter query = "<field>,contains,<text>"
\* (t title, a creator, d sub, any other any); searchtype c is redirected to
\* /discovery/browse with browseScope callnumber.0 and the text as
\* browseQuery, without a query parameter; sortby is set for the
\* searchdropdown codes t, a, c, r and left out for any other; the answer
\* is a 301 in every case.
C10_SearchQuery ==
    Searched =>
        /\ resp[1].status = 301
        /\ IF Get(InParams, "searchtype") = <<"c">>
           THEN /\ Out.Path = "/discovery/browse"
                /\ "query" \notin DOMAIN OutParams
                /\ Get(OutParams, "browseScope") = <<"c", "a", "l", "l", "n", "u", "m", "b", "e", "r", ".", "0">>
                /\ Get(OutParams, "browseQuery") = Get(InParams, "searcharg")
           ELSE /\ Out.Path = "/discovery/search"
                /\ "query" \in DOMAIN OutParams
                /\ OutParams["query"] =
                      <<ClaimedField(Get(InParams, "searchtype")) \o Contains
                            \o Get(InParams, "searcharg")>>
        /\ IF Get(InParams, "searchdropdown") \in DOMAIN ClaimedSort
           THEN Get(OutParams, "sortby") = ClaimedSort[Get(InParams, "searchdropdown")]
           ELSE "sortby" \notin DOMAIN OutParams

\* a subject search for "a b,c", sent as searcharg=a%20b,c
C10_Witness ==
    /\ Searched
    /\ Get(InParams, "searchtype") = <<"d">>
    /\ Get(InParams, "searcharg") = <<"a", " ", "b", ",", "c">>
    /\ OutParams["query"] = <<<<"s", "u", "b", ",", "c", "o", "n", "t", "a", "i", "n", "s", ",", "a", " ", "b", ",", "c">>>>

\* C14: a line that processLine returns an error for ends the load at that
\* line, and the error reported holds the 1-based number of the line and
\* the file it came from.
C14_ParseErrorNamesLineAndFile ==
    (pc # "processLine" /\ parsed.err \notin {"nil", "none", "panic"}) =>
        /\ pc = "exited"
        /\ fatalErr.msg = "Unable to process line"
        /\ fatalErr.text = line
        /\ fatalErr.lnum = lnum
        /\ lnum >= 1
        /\ fatalErr.file = fileIdx

(***************************************************************************)
(* The decoder of advanced searches                                        *)
(***************************************************************************)
\* the values a decoded term can have
IsSearchTerm(term) ==
    /\ DOMAIN term = {"field", "operator", "text", "connective"}
    /\ term.field \in {"any", "title", "creator", "sub"}
    /\ term.operator = "contains"
    /\ term.connective \in {"AND", "OR", "NOT"}

C12_Connectives ==
    (pc = "decoded" /\ Structured) =>
        /\ Len(terms) = Len(parts.segs)
        /\ terms[Len(terms)].connective = "AND"
        /\ \A i \in 1..(Len(terms) - 1) : terms[i].connective = parts.words[i].connective
        /\ \A i \in 1..Len(terms) : terms[i].text = parts.segs[i].text

\* an upper-case "AND NOT" between two different segments was decoded
C12_Witness ==
    /\ pc = "decoded"
    /\ Structured
    /\ Len(parts.segs) = 2
    /\ parts.words[1].word = <<" ", "A", "N", "D", " ", "N", "O", "T", " ">>
    /\ parts.segs[1].text # parts.segs[2].text
    /\ Len(terms) = 2
    /\ terms[1].connective = "NOT"
    /\ terms[2].connective = "AND"

\* the connective words of the expression that stand outside its segments
NumConnectives == IF Structured THEN Len(parts.segs) - 1 ELSE 0

\* every segment gave one term, with the field and the text written in it
TermPerSegment ==
    /\ Len(terms) = 1 + NumConnectives
    /\ \A i \in 1..Len(terms) :
         /\ terms[i].field = parts.segs[i].field
         /\ terms[i].text = parts.segs[i].text

OutputOfOwnRequest ==
    \A h \in DOMAIN handlers :
        handlers[h].w # <<>> => handlers[h].w = Respond(handlers[h].r, idMap, primo, vid)

\* no step after the load changes the table
TableReadOnly == pc \notin {"flags", "load"} => idMap' = idMap

\* C15: once the load is complete no step of any handler, in any
\* interleaving, changes the table, and the URL a handler writes is the one
\* of its own request, the table and the configuration.
C15_TableReadOnly == [][TableReadOnly]_vars /\ []OutputOfOwnRequest

\* a handler has written the record it found in the table while another
\* handler is in the middle of a different request
C15_Witness ==
    \E h1, h2 \in DOMAIN handlers :
        /\ h1 # h2
        /\ handlers[h1].stage = "written"
        /\ handlers[h1].w[1].Location.Path = "/discovery/fulldisplay"
        /\ handlers[h2].stage \in {"called", "built"}
        /\ handlers[h2].r # handlers[h1].r

\* C16: main passes <-shutdown and reports the server stopped only when
\* server.Shutdown has returned and no request is in flight any more.
C16_StoppedAfterShutdown ==
    pc = "stopped" =>
        /\ sigpc = "done"
        /\ shutdown
        /\ \A h \in DOMAIN handlers : handlers[h].stage = "idle"

\* the server has stopped, and a request that was in flight when Shutdown was
\* called has been answered
C16_Witness ==
    /\ pc = "stopped"
    /\ \E h \in DOMAIN handlers : handlers[h].atShutdown /\ handlers[h].stage = "idle"

====
